---- MODULE Spec2Model ----
(***************************************************************************)
(* The buffer/cursor engine of the Sereal Ruby extension                   *)
(* (ruby/ext/sereal/buffer.h): one growable byte buffer with append,       *)
(* bounds-checked reads, refill from a stream and compaction.              *)
(*                                                                         *)
(* The fields pos, size and rsize are C u32 values.  TLC's integers are    *)
(* 32-bit signed, so a u32 is kept as a pair <<hi, lo>> of 16-bit limbs    *)
(* and every sum or difference the code computes is computed modulo 2^32   *)
(* on the limbs.                                                           *)
(***************************************************************************)
EXTENDS Integers, Sequences, FiniteSets, TLC

VARIABLES
    data,      \* the bytes s->data[0 .. s->size)
    size,      \* s->size  (u32)
    rsize,     \* s->rsize (u32)
    pos,       \* s->pos   (u32)
    flags,     \* s->flags, a subset of {FLAG_STREAM, FLAG_NOT_MINE}
    dptr,      \* what s->data points to: "NULL", "heap" (malloc'ed here) or "ext"
    extFreed,  \* the borrowed external storage was handed to free()
    stream,    \* the bytes the source behind s->fd delivers before end-of-data
    fdpos,     \* how many of them read() has delivered so far
    pc,        \* "idle" between calls, "destroyed" once s_destroy has freed
               \* the sereal_t, "crashed" once the process has died
    last,      \* the last completed call: operation, result, what read() returned
    tracked,   \* s->tracked: "Qnil" or the object held
    registered,\* how many times &s->tracked is registered with the collector
    doubleFree,\* free() was handed the sereal_t a second time
    frame      \* the locals of a running s_read_stream (end and the saved pos)
               \* where its loop is followed iteration by iteration, else "none"

vars == <<data, size, rsize, pos, flags, dptr, extFreed, stream, fdpos, pc, last,
          tracked, registered, doubleFree, frame>>

\* The part of the state the buffer operations leave alone: what the tracker
\* and s_destroy work on, and the frame of a loop followed by iteration.
life == <<tracked, registered, doubleFree, frame>>

---------------------------------------------------------------------------
(* Bounds of the model *)

\* Append and the construction of a borrowed buffer are not taken past this size.
MaxSize == 2
\* Longest byte string handed to one s_append call.
MaxAppend == 1
\* Longest stream the source delivers before end-of-data.
MaxStream == 1
\* Longest stream the source delivers where the loop of s_read_stream is
\* followed iteration by iteration.
MaxFillStream == 2
\* A call that would move the cursor past this value (other than to 2^32 - 1)
\* is not followed.
MaxPos == 2
---------------------------------------------------------------------------
(* u32 arithmetic on 16-bit limbs *)

LimbBase == 2^16

\* The u32 of a natural number below 2^31.
U32(n) == <<n \div LimbBase, n % LimbBase>>

\* a + b modulo 2^32.
Add32(a, b) ==
    LET lo == a[2] + b[2]
        hi == a[1] + b[1] + (lo \div LimbBase)
    IN  <<hi % LimbBase, lo % LimbBase>>

\* a - b modulo 2^32.
Sub32(a, b) ==
    LET lo == a[2] - b[2]
        hi == a[1] - b[1] - (IF lo < 0 THEN 1 ELSE 0)
    IN  <<hi % LimbBase, lo % LimbBase>>

Lt32(a, b) == a[1] < b[1] \/ (a[1] = b[1] /\ a[2] < b[2])
Le32(a, b) == a = b \/ Lt32(a, b)

\* 2^32 - n for 1 <= n < 2^16: the u32 that -n converts to.
Neg32(n) == Sub32(U32(0), U32(n))

\* A u32 below 2^16, and its value as a number.
IsSmall(a) == a[1] = 0
Val(a) == a[2]

\* The cursor values a call may produce: 0 .. MaxPos, 2^32 - 1 and 2^32 - 2.
InWindow(p) == (IsSmall(p) /\ Val(p) <= MaxPos) \/ p \in {Neg32(1), Neg32(2)}

---------------------------------------------------------------------------
(* Bytes and inputs *)

\* The byte values the model tells apart: "A" and "B".
Byte == {65, 66}

\* All byte strings of length n.
BytesOfLen(n) == [1 .. n -> Byte]

\* All byte strings of length lo .. hi.
BytesUpTo(lo, hi) == UNION {BytesOfLen(n) : n \in lo .. hi}

\* What the source delivers: "A", "AB", "ABA", ... up to end-of-data.
StreamOf(n) == [i \in 1 .. n |-> 65 + ((i - 1) % 2)]

FLAG_STREAM == "FLAG_STREAM"
FLAG_NOT_MINE == "FLAG_NOT_MINE"

\* Arguments of the calls: small values and values next to 2^32.
Lengths == {U32(0), U32(1), U32(2), Neg32(1)}
Offsets == {U32(0), U32(1), Neg32(1)}

\* The record of a completed call; io is what the last read() of it returned
\* ("none" when it made no read, or the read delivered bytes).
Call(op, res, io) == [op |-> op, res |-> res, io |-> io]

---------------------------------------------------------------------------
(* Construction *)

\* s_create: a zeroed sereal_t.
s_create ==
    [data |-> <<>>, size |-> U32(0), rsize |-> U32(0), pos |-> U32(0),
     flags |-> {}, dptr |-> "NULL"]

\* A buffer configured with a source at creation.
createStreaming == [s_create EXCEPT !.flags = {FLAG_STREAM}]

\* A buffer over existing bytes it does not own.
createBorrowing(bytes) ==
    [data |-> bytes, size |-> U32(Len(bytes)), rsize |-> U32(Len(bytes)),
     pos |-> U32(0), flags |-> {FLAG_NOT_MINE}, dptr |-> "ext"]

Init ==
    \E s \in {s_create, createStreaming} \cup
             {createBorrowing(b) : b \in BytesUpTo(1, MaxSize)} :
      /\ data = s.data
      /\ size = s.size
      /\ rsize = s.rsize
      /\ pos = s.pos
      /\ flags = s.flags
      /\ dptr = s.dptr
      /\ extFreed = FALSE
      /\ \E n \in 0 .. MaxStream :
            stream = IF FLAG_STREAM \in s.flags THEN StreamOf(n) ELSE <<>>
      /\ fdpos = 0
      /\ pc = "idle"
      /\ last = Call("create", "ok", "none")
      /\ tracked = "Qnil"
      /\ registered = 0
      /\ doubleFree = FALSE
      /\ frame = "none"

---------------------------------------------------------------------------
(* Growth manager and append *)

\* realloc(p, n) when it succeeds: the first min(old, n) bytes are kept; a valid
\* byte that no longer lies inside the block has an indeterminate value.
Realloc(d, n) ==
    IF ~IsSmall(n) \/ Val(n) >= Len(d)
    THEN {d}
    ELSE {d2 \in BytesOfLen(Len(d)) : \A i \in 1 .. Val(n) : d2[i] = d[i]}

\* s_alloc asking realloc for len bytes, not for size + len + 512.
s_alloc_len_only(d, sz, rsz, p, len) ==
    IF Lt32(Add32(sz, len), rsz)
    THEN {[res |-> "ok", data |-> d, rsize |-> rsz, dptr |-> p, grew |-> FALSE]}
    ELSE {[res |-> "NoMemError", data |-> d, rsize |-> rsz, dptr |-> p,
           grew |-> FALSE]}
         \cup {[res |-> "ok", data |-> d2, rsize |-> len, dptr |-> "heap",
                grew |-> TRUE] : d2 \in Realloc(d, len)}

\* s_alloc(s, len): the outcomes, as the new data, rsize and data pointer.
s_alloc(d, sz, rsz, p, len) ==
    IF Lt32(Add32(sz, len), rsz)
    THEN {[res |-> "ok", data |-> d, rsize |-> rsz, dptr |-> p, grew |-> FALSE]}
    ELSE LET n == Add32(Add32(sz, len), U32(512))
         IN  {[res |-> "NoMemError", data |-> d, rsize |-> rsz, dptr |-> p,
               grew |-> FALSE]}
             \cup {[res |-> "ok", data |-> d2, rsize |-> n, dptr |-> "heap",
                    grew |-> TRUE] : d2 \in Realloc(d, n)}

\* s_append leaving the cursor at the new end of the data.
s_append_pos_at_end(d, sz, rsz, ps, p, suffix) ==
    LET s_len == U32(Len(suffix))
    IN  {IF a.res = "ok"
         THEN [res |-> "ok", data |-> a.data \o suffix, size |-> Add32(sz, s_len),
               rsize |-> a.rsize, pos |-> Add32(sz, s_len), dptr |-> a.dptr]
         ELSE [res |-> a.res, data |-> d, size |-> sz, rsize |-> rsz, pos |-> ps,
               dptr |-> p]
         : a \in s_alloc(d, sz, rsz, p, s_len)}

\* s_append(s, suffix, s_len): the outcomes.
s_append(d, sz, rsz, ps, p, suffix) ==
    LET s_len == U32(Len(suffix))
    IN  {IF a.res = "ok"
         THEN [res |-> "ok", data |-> a.data \o suffix, size |-> Add32(sz, s_len),
               rsize |-> a.rsize, pos |-> Add32(ps, s_len), dptr |-> a.dptr]
         ELSE [res |-> a.res, data |-> d, size |-> sz, rsize |-> rsz, pos |-> ps,
               dptr |-> p]
         : a \in s_alloc(d, sz, rsz, p, s_len)}

\* A caller grows the buffer: s_alloc(s, len).  Write paths are for buffers
\* that own their storage.
ensureCapacity(len) ==
    /\ pc = "idle"
    /\ FLAG_NOT_MINE \notin flags
    /\ \E a \in s_alloc(data, size, rsize, dptr, len) :
          /\ data' = a.data
          /\ rsize' = a.rsize
          /\ dptr' = a.dptr
          /\ last' = Call("ensureCapacity", a.res, "none")
    /\ UNCHANGED <<size, pos, flags, extFreed, stream, fdpos, pc, life>>

\* A caller appends the byte string b: s_append(s, b, len(b)).
append(b) ==
    /\ pc = "idle"
    /\ FLAG_NOT_MINE \notin flags
    /\ Len(data) + Len(b) <= MaxSize
    /\ \E o \in s_append(data, size, rsize, pos, dptr, b) :
          /\ InWindow(o.pos)
          /\ data' = o.data
          /\ size' = o.size
          /\ rsize' = o.rsize
          /\ pos' = o.pos
          /\ dptr' = o.dptr
          /\ last' = Call("append", o.res, "none")
    /\ UNCHANGED <<flags, extFreed, stream, fdpos, pc, life>>

---------------------------------------------------------------------------
(* Streaming reader *)

\* How many bytes one read(fd, buf, req) can deliver when fd bytes were
\* delivered before.
ReadCounts(fd, req) ==
    LET avail == Len(stream) - fd
    IN  1 .. (IF IsSmall(req) /\ Val(req) < avail THEN Val(req) ELSE avail)

\* The request taken from the target instead of from what is missing.
ReqWholeTarget(end, sz) == end

\* u32 req = end - s->size
Req(end, sz) == Sub32(end, sz)

\* The length of the scratch buffer the loop allocates for a read of req bytes.
ScratchLen(sz, req) == Sub32(sz, req)

\* What s_append finds in the scratch buffer after read() stored chunk in it:
\* the bytes that lie past the end of the buffer are indeterminate.
Scratch(chunk, scratch) ==
    IF ~IsSmall(scratch) \/ Val(scratch) >= Len(chunk)
    THEN {chunk}
    ELSE {c \in BytesOfLen(Len(chunk)) : \A i \in 1 .. Val(scratch) : c[i] = chunk[i]}

\* The buffer fields the loop works on, and the count of bytes read so far.
Buf(d, sz, rsz, ps, p, fd) ==
    [data |-> d, size |-> sz, rsize |-> rsz, pos |-> ps, dptr |-> p, fdpos |-> fd]

\* The loop of s_read_stream(s, end) from the buffer st on: every way it can
\* end, as the result, what the last read() returned and the buffer left.
\*   "ok"          size >= end                       (return 1)
\*   "RangeError"  read() returned 0 or -1            (return -1)
\*   "NoMemError"  an allocation failed               (s_raise)
\*   "crash"       read() stored past the scratch buffer and the heap broke
RECURSIVE ReadLoop(_, _)
ReadLoop(st, end) ==
    IF ~Lt32(st.size, end)
    THEN {[res |-> "ok", io |-> "none", st |-> st]}
    ELSE LET req == Req(end, st.size)
             scratch == ScratchLen(st.size, req)
             Step(rc) ==
                 LET chunk == SubSeq(stream, st.fdpos + 1, st.fdpos + rc)
                     Appended(o) == Buf(o.data, o.size, o.rsize, o.pos, o.dptr,
                                        st.fdpos + rc)
                 IN  UNION {UNION {IF o.res = "ok"
                                   THEN ReadLoop(Appended(o), end)
                                   ELSE {[res |-> o.res, io |-> "none",
                                          st |-> Appended(o)]}
                                   : o \in s_append(st.data, st.size, st.rsize,
                                                    st.pos, st.dptr, c)}
                            : c \in Scratch(chunk, scratch)}
                     \cup (IF Lt32(scratch, U32(rc))
                           THEN {[res |-> "crash", io |-> "none",
                                  st |-> [st EXCEPT !.fdpos = st.fdpos + rc]]}
                           ELSE {})
         IN  {[res |-> "NoMemError", io |-> "none", st |-> st]}
             \cup {[res |-> "RangeError", io |-> "error", st |-> st]}
             \cup (IF st.fdpos = Len(stream)
                   THEN {[res |-> "RangeError", io |-> "eof", st |-> st]}
                   ELSE {})
             \cup UNION {Step(rc) : rc \in ReadCounts(st.fdpos, req)}

\* s_read_stream(s, end): the cursor is saved, the loop runs, and the cursor
\* is put back where the loop is left with size >= end.
s_read_stream(st, end) ==
    {IF r.res = "ok" THEN [r EXCEPT !.st.pos = st.pos] ELSE r : r \in ReadLoop(st, end)}

---------------------------------------------------------------------------
(* Bounds guard and the accessors over it *)

\* s_get_p_at_pos(s, off, req): the outcomes.  A bounded buffer raises or
\* returns at once; a streaming one whose check fails first runs
\* s_read_stream(s, off + req + 1).
s_get_p_at_pos(st, fl, off, req) ==
    IF Le32(st.size, Add32(off, req))
    THEN IF FLAG_STREAM \in fl
         THEN s_read_stream(st, Add32(Add32(off, req), U32(1)))
         ELSE {[res |-> "RangeError", io |-> "none", st |-> st]}
    ELSE {[res |-> "ok", io |-> "none", st |-> st]}

\* A read accessor: s_get_p_at_pos(s, off, req), and adv added to s->pos
\* when it returns.
GetP(op, off, req, adv) ==
    /\ pc = "idle"
    /\ \E r \in s_get_p_at_pos(Buf(data, size, rsize, pos, dptr, fdpos), flags, off, req) :
          /\ data' = r.st.data
          /\ size' = r.st.size
          /\ rsize' = r.st.rsize
          /\ dptr' = r.st.dptr
          /\ fdpos' = r.st.fdpos
          /\ pos' = IF r.res = "ok" THEN Add32(r.st.pos, adv) ELSE r.st.pos
          /\ pc' = IF r.res = "crash" THEN "crashed" ELSE "idle"
          /\ last' = Call(op, r.res, r.io)
    /\ UNCHANGED <<flags, extFreed, stream, life>>

\* s_get_p_at_pos
peekAt(off, req) == GetP("peekAt", off, req, U32(0))

\* s_get_p_at_pos_bang: s->pos += req
readAt(off, req) == InWindow(Add32(pos, req)) /\ GetP("readAt", off, req, req)

\* s_get_u8_bang: s_get_p_at_pos(s, s->pos, 0), then s->pos++
s_get_u8_bang == GetP("readU8", pos, U32(0), U32(1))

\* s_get_u32_bang: s_get_p_at_pos(s, s->pos, sizeof(u32) - 1), then s->pos += 4
s_get_u32_bang == GetP("readU32", pos, U32(3), U32(4))

\* s_get_float_bang: s_get_p_at_pos(s, s->pos, sizeof(float) - 1), then s->pos += 4
s_get_float_bang == GetP("readFloat", pos, U32(3), U32(4))

\* s_get_double_bang: s_get_p_at_pos(s, s->pos, sizeof(double) - 1), then s->pos += 8
s_get_double_bang == GetP("readDouble", pos, U32(7), U32(8))

\* s_shift_position_bang
shiftCursor(len) ==
    /\ pc = "idle"
    /\ InWindow(Add32(pos, len))
    /\ pos' = Add32(pos, len)
    /\ last' = Call("shiftCursor", "ok", "none")
    /\ UNCHANGED <<data, size, rsize, flags, dptr, extFreed, stream, fdpos, pc, life>>

---------------------------------------------------------------------------
(* Compactor *)

\* The copy taken from the start of the data instead of from the cursor.
ShiftCopyFromStart(d, ps, left) == SubSeq(d, 1, Val(left))

\* COPY(s->data + s->pos, buf, left)
ShiftCopy(d, ps, left) == SubSeq(d, Val(ps) + 1, Val(ps) + Val(left))

\* s_shift_left
compact ==
    /\ pc = "idle"
    /\ LET left == Sub32(size, pos)
       IN  IF left = U32(0)
           THEN \/ /\ data' = <<>>
                   /\ dptr' = "NULL"
                   /\ size' = U32(0)
                   /\ rsize' = U32(0)
                   /\ extFreed' = (extFreed \/ dptr = "ext")
                   /\ last' = Call("compact", "ok", "none")
                   /\ UNCHANGED pc
                \/ /\ dptr = "ext"
                   /\ pc' = "crashed"
                   /\ extFreed' = TRUE
                   /\ last' = Call("compact", "crash", "none")
                   /\ UNCHANGED <<data, dptr, size, rsize>>
           ELSE \/ /\ last' = Call("compact", "NoMemError", "none")
                   /\ UNCHANGED <<data, dptr, size, rsize, extFreed, pc>>
                \/ /\ \/ /\ Le32(pos, size)
                         /\ data' = ShiftCopy(data, pos, left)
                      \/ /\ Lt32(size, pos)
                         /\ IsSmall(left) /\ Val(left) <= MaxSize
                         /\ data' \in BytesOfLen(Val(left))
                   /\ dptr' = "heap"
                   /\ size' = left
                   /\ rsize' = left
                   /\ extFreed' = (extFreed \/ dptr = "ext")
                   /\ last' = Call("compact", "ok", "none")
                   /\ UNCHANGED pc
                \/ /\ Lt32(size, pos) \/ dptr = "ext"
                   /\ pc' = "crashed"
                   /\ extFreed' = (extFreed \/ dptr = "ext")
                   /\ last' = Call("compact", "crash", "none")
                   /\ UNCHANGED <<data, dptr, size, rsize>>
    /\ UNCHANGED <<pos, flags, stream, fdpos, life>>

---------------------------------------------------------------------------
(* Tracker and destruction *)

\* The objects a buffer may be asked to hold.
Objects == {"obj"}

\* The buffer handles a caller may pass to s_destroy.
Handles == {"NULL", "s"}

\* s_reset_tracker unregistering whether or not an object is held.
s_reset_tracker_unconditional(t, reg) ==
    [tracked |-> "Qnil", registered |-> reg - 1]

\* s_reset_tracker: the tracker and the registration count it leaves.
s_reset_tracker(t, reg) ==
    [tracked |-> "Qnil", registered |-> IF t # "Qnil" THEN reg - 1 ELSE reg]

\* s_free_data_if_not_mine: the data pointer it leaves.
s_free_data_if_not_mine(fl, p) == IF FLAG_NOT_MINE \notin fl THEN "NULL" ELSE p

\* The buffer is given an object to hold: the one held before is released,
\* then &s->tracked is registered.
setAnchor(obj) ==
    /\ pc = "idle"
    /\ LET r == s_reset_tracker(tracked, registered)
       IN  /\ tracked' = obj
           /\ registered' = r.registered + 1
    /\ last' = Call("setAnchor", "ok", "none")
    /\ UNCHANGED <<data, size, rsize, pos, flags, dptr, extFreed, stream, fdpos,
                   pc, doubleFree, frame>>

\* s_reset_tracker; io records the call to the collector.
clearAnchor ==
    /\ pc = "idle"
    /\ LET r == s_reset_tracker(tracked, registered)
       IN  /\ tracked' = r.tracked
           /\ registered' = r.registered
    /\ last' = Call("clearAnchor", "ok",
                     IF tracked # "Qnil" THEN "unregistered" ELSE "none")
    /\ UNCHANGED <<data, size, rsize, pos, flags, dptr, extFreed, stream, fdpos,
                   pc, doubleFree, frame>>

\* s_destroy(h).  On a sereal_t that s_destroy has freed before, the call
\* reads freed memory and frees it again: the process dies, or free() goes
\* through a second time.
destroy(h) ==
    \/ /\ h = "NULL"
       /\ pc \in {"idle", "destroyed"}
       /\ last' = Call("destroy", "ok", "none")
       /\ UNCHANGED <<data, size, rsize, pos, flags, dptr, extFreed, stream,
                      fdpos, pc, life>>
    \/ /\ h = "s"
       /\ pc = "idle"
       /\ LET r == s_reset_tracker(tracked, registered)
          IN  /\ tracked' = r.tracked
              /\ registered' = r.registered
       /\ dptr' = s_free_data_if_not_mine(flags, dptr)
       /\ data' = IF FLAG_NOT_MINE \notin flags THEN <<>> ELSE data
       /\ pc' = "destroyed"
       /\ last' = Call("destroy", "ok", "none")
       /\ UNCHANGED <<size, rsize, pos, flags, extFreed, stream, fdpos, doubleFree,
                      frame>>
    \/ /\ h = "s"
       /\ pc = "destroyed"
       /\ \/ /\ doubleFree' = TRUE
             /\ last' = Call("destroy", "ok", "none")
             /\ UNCHANGED pc
          \/ /\ pc' = "crashed"
             /\ last' = Call("destroy", "crash", "none")
             /\ UNCHANGED doubleFree
       /\ UNCHANGED <<data, size, rsize, pos, flags, dptr, extFreed, stream,
                      fdpos, tracked, registered, frame>>

---------------------------------------------------------------------------
(* Specification *)

Next ==
    \/ \E len \in Lengths : ensureCapacity(len)
    \/ \E b \in BytesUpTo(0, MaxAppend) : append(b)
    \/ \E off \in Offsets, req \in Lengths : peekAt(off, req)
    \/ \E off \in Offsets, req \in Lengths : readAt(off, req)
    \/ s_get_u8_bang
    \/ s_get_u32_bang
    \/ s_get_float_bang
    \/ s_get_double_bang
    \/ \E len \in Lengths : shiftCursor(len)
    \/ compact
    \/ \E obj \in Objects : setAnchor(obj)
    \/ clearAnchor
    \/ \E h \in Handles : destroy(h)

Spec == Init /\ [][Next]_vars

---------------------------------------------------------------------------
(* The streaming reader, one iteration of its loop at a time *)

\* A streaming buffer as created, over a source of up to MaxFillStream bytes.
FillInit ==
    /\ data = createStreaming.data
    /\ size = createStreaming.size
    /\ rsize = createStreaming.rsize
    /\ pos = createStreaming.pos
    /\ flags = createStreaming.flags
    /\ dptr = createStreaming.dptr
    /\ extFreed = FALSE
    /\ \E n \in 0 .. MaxFillStream : stream = StreamOf(n)
    /\ fdpos = 0
    /\ pc = "idle"
    /\ last = Call("create", "ok", "none")
    /\ tracked = "Qnil"
    /\ registered = 0
    /\ doubleFree = FALSE
    /\ frame = "none"

\* s_get_p_at_pos(s, off, req) finds off + req >= s->size on a streaming
\* buffer and enters s_read_stream(s, off + req + 1): u32 pos = s->pos.
FillCall(off, req) ==
    /\ pc = "idle"
    /\ FLAG_STREAM \in flags
    /\ Le32(size, Add32(off, req))
    /\ frame' = [end |-> Add32(Add32(off, req), U32(1)), pos |-> pos]
    /\ pc' = "fill"
    /\ last' = Call("fill", "running", "none")
    /\ UNCHANGED <<data, size, rsize, pos, flags, dptr, extFreed, stream, fdpos,
                   tracked, registered, doubleFree>>

\* s_read_stream is left with the result res; io is what read() returned.
FillReturn(res, io) ==
    /\ pc' = (IF res = "crash" THEN "crashed" ELSE "idle")
    /\ frame' = "none"
    /\ last' = Call("fill", res, io)

\* One test of the loop condition of s_read_stream and, where it holds, one
\* pass through the loop body.
FillIter ==
    /\ pc = "fill"
    /\ IF ~Lt32(size, frame.end)
       THEN /\ pos' = frame.pos
            /\ FillReturn("ok", "none")
            /\ UNCHANGED <<data, size, rsize, dptr, fdpos>>
       ELSE LET req == Req(frame.end, size)
                scratch == ScratchLen(size, req)
            IN  \/ /\ FillReturn("NoMemError", "none")
                   /\ UNCHANGED <<data, size, rsize, pos, dptr, fdpos>>
                \/ /\ FillReturn("RangeError", "error")
                   /\ UNCHANGED <<data, size, rsize, pos, dptr, fdpos>>
                \/ /\ fdpos = Len(stream)
                   /\ FillReturn("RangeError", "eof")
                   /\ UNCHANGED <<data, size, rsize, pos, dptr, fdpos>>
                \/ \E rc \in ReadCounts(fdpos, req) :
                      /\ fdpos' = fdpos + rc
                      /\ \/ \E c \in Scratch(SubSeq(stream, fdpos + 1, fdpos + rc),
                                               scratch) :
                            \E o \in s_append(data, size, rsize, pos, dptr, c) :
                               /\ data' = o.data
                               /\ size' = o.size
                               /\ rsize' = o.rsize
                               /\ pos' = o.pos
                               /\ dptr' = o.dptr
                               /\ IF o.res = "ok"
                                  THEN /\ last' = Call("fill", "running", "none")
                                       /\ UNCHANGED <<pc, frame>>
                                  ELSE FillReturn(o.res, "none")
                         \/ /\ Lt32(scratch, U32(rc))
                            /\ FillReturn("crash", "none")
                            /\ UNCHANGED <<data, size, rsize, pos, dptr>>
    /\ UNCHANGED <<flags, extFreed, stream, tracked, registered, doubleFree>>

FillNext ==
    \/ \E b \in BytesUpTo(0, MaxAppend) : append(b)
    \/ \E len \in Lengths : shiftCursor(len)
    \/ \E off \in Offsets, req \in Lengths : FillCall(off, req)
    \/ FillIter

\* The loop runs on while the calls it makes return.
FillSpec == FillInit /\ [][FillNext]_vars /\ WF_vars(FillIter)

---------------------------------------------------------------------------
(* Properties *)

\* The sum a + b does not fit 32 bits.
Wraps(a, b) == Lt32(Add32(a, b), a)

\* a + b <= c for the true (unwrapped) sum.
SumLe(a, b, c) == ~Wraps(a, b) /\ Le32(Add32(a, b), c)

\* C1: after every call on a buffer made by create(), pos <= size <= capacity.
C1_PosSizeCapacity ==
    (flags = {} /\ pc = "idle") => (Le32(pos, size) /\ Le32(size, rsize))

\* C2: on a bounded buffer peekAt(offset, length) raises the range error and
\* changes nothing when offset + length >= size, and returns without moving
\* the cursor when offset + length < size.
C2_PeekBounded ==
    [][\A off \in Offsets, req \in Lengths :
         (FLAG_STREAM \notin flags /\ last'.op = "peekAt" /\ peekAt(off, req))
         => IF SumLe(off, req, size) /\ Add32(off, req) # size
            THEN last'.res = "ok" /\ pos' = pos /\ data' = data
            ELSE /\ last'.res = "RangeError"
                 /\ UNCHANGED <<data, size, rsize, pos>>]_vars

\* C3 as claimed: append(b) at size = s0 leaves data[s0 .. s0+len(b)) = b,
\* size = s0 + len(b) and pos = s0 + len(b), whatever pos was.
C3_AppendPosIsNewSize ==
    [][\A b \in BytesUpTo(0, MaxAppend) :
         (last'.op = "append" /\ last'.res = "ok" /\ append(b))
         => /\ SubSeq(data', Len(data) + 1, Len(data) + Len(b)) = b
            /\ size' = Add32(size, U32(Len(b)))
            /\ pos' = Add32(size, U32(Len(b)))]_vars

\* C3 as amended: append(b) at size = s0 and pos = p0 leaves
\* data[s0 .. s0+len(b)) = b, the bytes before s0 as they were,
\* size = s0 + len(b) and pos = p0 + len(b) (modulo 2^32); pos is the new size
\* exactly when p0 = s0.
C3_AppendAdvancesBoth ==
    [][\A b \in BytesUpTo(0, MaxAppend) :
         (last'.op = "append" /\ last'.res = "ok" /\ append(b))
         => /\ data' = data \o b
            /\ size' = Add32(size, U32(Len(b)))
            /\ pos' = Add32(pos, U32(Len(b)))
            /\ (pos' = size') <=> (pos = size)]_vars

\* An append returned on a buffer whose cursor is not at the end of the data.
C3_Witness ==
    /\ last.op = "append" /\ last.res = "ok"
    /\ Len(data) >= 1
    /\ pos # size

\* C4: after ensureCapacity(additional) returns, capacity >= size + additional,
\* capacity has not shrunk, size, pos and the bytes are as before, and a
\* capacity that changed is exactly size + additional + 512.
C4_EnsureCapacity ==
    [][\A len \in Lengths :
         (last'.op = "ensureCapacity" /\ last'.res = "ok" /\ ensureCapacity(len))
         => /\ SumLe(size, len, rsize')
            /\ Le32(rsize, rsize')
            /\ size' = size /\ pos' = pos /\ data' = data
            /\ rsize' # rsize =>
                 /\ SumLe(size, len, Neg32(513))
                 /\ rsize' = Add32(Add32(size, len), U32(512))]_vars

\* C5: compact on a buffer with pos = p <= size = s leaves
\* size = capacity = s - p and pos = 0, and with p = s the state of create().
C5_CompactResetsCursor ==
    [][(last'.op = "compact" /\ last'.res = "ok" /\ Le32(pos, size) /\ compact)
         => /\ size' = Sub32(size, pos)
            /\ rsize' = Sub32(size, pos)
            /\ pos' = U32(0)
            /\ pos = size =>
                 (data' = <<>> /\ dptr' = "NULL" /\ size' = U32(0)
                  /\ rsize' = U32(0))]_vars

\* C6: compact on a buffer with pos = p <= size = s leaves, as data[0 .. s-p),
\* the bytes that were data[p .. s), in order.
C6_CompactKeepsTail ==
    [][(last'.op = "compact" /\ last'.res = "ok" /\ Le32(pos, size) /\ compact)
         => /\ Len(data') = Val(size) - Val(pos)
            /\ \A i \in 1 .. Len(data') : data'[i] = data[Val(pos) + i]]_vars

\* A compaction returned that moved a non-empty tail from a non-zero cursor.
C6_Witness ==
    /\ last.op = "compact" /\ last.res = "ok"
    /\ FLAG_NOT_MINE \notin flags
    /\ IsSmall(pos) /\ Val(pos) >= 1
    /\ Len(data) >= 1

\* C7: a compact right after a compact (the cursor within the data both
\* times) changes nothing.
C7_CompactIdempotent ==
    [][(last.op = "compact" /\ last.res = "ok" /\ Le32(pos, size)
        /\ FLAG_NOT_MINE \notin flags
        /\ last'.op = "compact" /\ last'.res = "ok" /\ compact)
         => UNCHANGED <<data, size, rsize, pos>>]_vars

\* C8: on an empty streaming buffer whose source delivers N bytes before
\* end-of-data, a request for L bytes at offset 0, 1 <= L <= N, succeeds and
\* the buffer then starts with the first L bytes of the source.
C8_StreamRequestWithinSource ==
    [][\A req \in Lengths :
         (/\ FLAG_STREAM \in flags /\ data = <<>> /\ fdpos = 0
          /\ IsSmall(req) /\ 1 <= Val(req) /\ Val(req) <= Len(stream)
          /\ last'.op = "peekAt" /\ peekAt(U32(0), req)
          /\ last'.res \notin {"NoMemError", "crash"} /\ last'.io # "error")
         => /\ last'.res = "ok"
            /\ Len(data') >= Val(req)
            /\ SubSeq(data', 1, Val(req)) = SubSeq(stream, 1, Val(req))]_vars

\* C9: a read request on a streaming buffer whose source ends or fails short
\* of the requested extent raises the range error, and the bytes the source
\* delivered before that stay appended, in order.
C9_StreamFailureKeepsBytes ==
    [][\A off \in Offsets, req \in Lengths :
         (/\ FLAG_STREAM \in flags
          /\ last'.op = "peekAt" /\ last'.io \in {"eof", "error"}
          /\ peekAt(off, req))
         => /\ last'.res = "RangeError"
            /\ size' = Add32(size, U32(fdpos' - fdpos))
            /\ data' = data \o SubSeq(stream, fdpos + 1, fdpos')]_vars

\* C10: the fill a bounds check runs on a streaming buffer leaves pos where
\* it was, when it succeeds and when it fails.
C10_FillKeepsCursor ==
    [][\A off \in Offsets, req \in Lengths :
         (/\ FLAG_STREAM \in flags
          /\ last'.op = "peekAt" /\ last'.res \in {"ok", "RangeError"}
          /\ peekAt(off, req))
         => pos' = pos]_vars

\* C11: a buffer over borrowed storage (FLAG_NOT_MINE) never hands that
\* storage to free() or realloc(), and its data pointer keeps referring to it,
\* whatever peekAt, readAt, typed reads, shiftCursor, clearAnchor, compact and
\* destroy are called on it.
C11_BorrowedStorageKept ==
    (FLAG_NOT_MINE \in flags) => (~extFreed /\ dptr = "ext")

\* C12: destroy does nothing on a null buffer; on a live buffer it releases
\* the tracker if one is held and frees data only if the buffer owns it; a
\* destroy on a buffer already destroyed does nothing: nothing is freed twice
\* and no freed state is read.
C12_DestroyOnce ==
    [][\A h \in Handles :
         (last'.op = "destroy" /\ destroy(h))
         => IF h = "NULL" \/ pc = "destroyed"
            THEN /\ last'.res = "ok"
                 /\ UNCHANGED <<data, size, rsize, pos, flags, dptr, extFreed,
                                pc, life>>
            ELSE /\ last'.res = "ok"
                 /\ tracked' = "Qnil" /\ registered' = 0
                 /\ dptr' = IF FLAG_NOT_MINE \in flags THEN dptr ELSE "NULL"
                 /\ extFreed' = extFreed
                 /\ ~doubleFree']_vars

\* What C13 says of a typed read of width w at the cursor: with
\* pos + w <= size it returns and leaves pos + w; otherwise, on a bounded
\* buffer, it raises the range error and leaves pos.
TypedRead(w) ==
    IF SumLe(pos, U32(w), size)
    THEN last'.res = "ok" /\ pos' = Add32(pos, U32(w)) /\ data' = data
    ELSE FLAG_STREAM \notin flags => (last'.res = "RangeError" /\ pos' = pos)

\* C13: a typed read of width w (1 for u8, 4 for u32 and float, 8 for double)
\* succeeds, over the w bytes at the cursor, and leaves pos + w exactly when
\* pos + w <= size (so also right after those bytes were appended at s0 and
\* pos put back to s0); on a bounded buffer it otherwise raises the range
\* error without moving pos.
C13_TypedReadRoundTrip ==
    [][/\ (last'.op = "readU8" /\ s_get_u8_bang) => TypedRead(1)
       /\ (last'.op = "readU32" /\ s_get_u32_bang) => TypedRead(4)
       /\ (last'.op = "readFloat" /\ s_get_float_bang) => TypedRead(4)
       /\ (last'.op = "readDouble" /\ s_get_double_bang) => TypedRead(8)]_vars

\* C14: whenever the bounds check of readAt(offset, length) passes (here on
\* a bounded buffer), the call leaves pos = offset + length, also when offset
\* is not the cursor.
C14_ReadAtSetsCursor ==
    [][\A off \in Offsets, req \in Lengths :
         (/\ FLAG_STREAM \notin flags /\ ~Wraps(off, req)
          /\ last'.op = "readAt" /\ last'.res = "ok" /\ readAt(off, req))
         => (pos' = Add32(off, req) /\ data' = data)]_vars

\* C15: clearAnchor releases the tracker only if one is held and leaves none
\* held; a call with none held changes nothing; no call changes data, size,
\* capacity, pos or the flags; and at most one registration exists at any time.
C15_ClearAnchor ==
    /\ registered = (IF tracked # "Qnil" THEN 1 ELSE 0)
    /\ [][/\ registered' = (IF tracked' # "Qnil" THEN 1 ELSE 0)
          /\ (last'.op = "clearAnchor" /\ clearAnchor)
             => /\ tracked' = "Qnil"
                /\ registered' = 0
                /\ registered - registered' = (IF tracked # "Qnil" THEN 1 ELSE 0)
                /\ last'.io = (IF tracked # "Qnil" THEN "unregistered" ELSE "none")
                /\ UNCHANGED <<data, size, rsize, pos, flags, dptr, extFreed>>]_vars

\* clearAnchor released a tracker that was held, on a buffer with data.
C15_Witness ==
    /\ last.op = "clearAnchor" /\ last.io = "unregistered"
    /\ tracked = "Qnil" /\ registered = 0
    /\ Len(data) >= 1

\* C16: ensureCapacity(additional) leaves capacity and the data pointer as
\* they are whenever capacity - size >= additional, also when
\* capacity - size = additional.
C16_NoGrowthWhenSlackCovers ==
    [][\A len \in Lengths :
         (/\ last'.op = "ensureCapacity" /\ last'.res = "ok"
          /\ SumLe(size, len, rsize)
          /\ ensureCapacity(len))
         => (rsize' = rsize /\ dptr' = dptr)]_vars

\* C17: whenever s_get_p_at_pos(offset, length) returns on a bounded buffer,
\* the true sum offset + length is below size.
C17_GuardContainsView ==
    [][\A off \in Offsets, req \in Lengths :
         (/\ FLAG_STREAM \notin flags
          /\ last'.op = "peekAt" /\ last'.res = "ok" /\ peekAt(off, req))
         => (~Wraps(off, req) /\ Lt32(Add32(off, req), size))]_vars

\* C18: in every iteration of the loop of s_read_stream the scratch buffer
\* handed to read() has room for the req = end - size bytes asked of it
\* (stated here for the targets below 2^16).
C18_ScratchHoldsRequest ==
    [][(pc = "fill" /\ IsSmall(frame.end) /\ Lt32(size, frame.end) /\ FillIter)
        => Le32(Req(frame.end, size), ScratchLen(size, Req(frame.end, size)))]_vars

C20_SizeWithinCapacity ==
    /\ (last.op = "create" => Le32(size, rsize))
    /\ [][\/ Le32(size', rsize')
          \/ ~Le32(size, rsize)
          \/ \E len \in Lengths :
                /\ Wraps(size, len) \/ Wraps(Add32(size, len), U32(512))
                /\ ensureCapacity(len)]_vars

\* Two bytes were appended to a buffer whose capacity had been grown to 514.
C20_Witness ==
    /\ last.op = "append" /\ last.res = "ok"
    /\ Len(data) = 2
    /\ rsize = U32(514)

====
